---- MODULE Spec2Model ----
(***************************************************************************)
(* Model of the RET operations report: the water-year function and the    *)
(* cumulative-to-daily conversion (scripts/plot_generators.py), the paired *)
(* treatment/control aggregation of plot_snow_depth_boxplots, the plot     *)
(* generation of generate_report.py, and the report-writing side: the      *)
(* pipeline, the operations table, update_latex_plots and                  *)
(* remove_duplicates.py.                                                   *)
(*                                                                         *)
(* A date is a tuple <<year, month, day>>.  A reading is a record          *)
(* [Date, Value]; Value is an integer or the missing marker NaN.           *)
(***************************************************************************)
EXTENDS Integers, Sequences, FiniteSets

VARIABLES pc,           \* position of the modelled call
          date,         \* argument of get_water_year           (SpecWY)
          wy_ret,       \* value returned by get_water_year      (SpecWY)
          df,           \* rows handed to handle_snotel_cumulative
          out_dates,    \* returned df[date_col]: the rows after sort_values
          water_year,   \* df['water_year']
          daily_diff,   \* returned df['daily_diff']
          treatment_df, \* rows (Date, snow depth) loaded for the treatment station
          control_df,   \* rows (Date, snow depth) loaded for the control station
          month,        \* month / highlight_month of plot_snow_depth_boxplots
          year,         \* year / highlight_year
          merged,       \* the date-aligned frame (Treatment, Control, Diff)
          treatment_groups,
          control_groups,
          diff_groups,
          highlight_vals,
          result,       \* outcome of plot_snow_depth_boxplots
          station_kind, \* per station: what load_station_data finds on disk
          rpc,          \* position of generate_all_plots
          station_idx,  \* index of the station of the precipitation loop
          loaded,       \* stations whose table the precipitation step loaded
          precip_error, \* the precipitation step ended in its except clause
          pair_idx,     \* index of the (treatment, control) pair of the loop
          attempts,     \* per pair: calls of plot_snow_depth_boxplots
          processed,    \* pairs whose two tables were loaded by the call
          plot_count,   \* plot_count of generate_all_plots
          cfg_month,    \* config.py WATER_YEAR_START_MONTH as configured
          cfg_day,      \* config.py WATER_YEAR_START_DAY as configured
          station_name, \* name of the station of one pass of the precipitation loop
          df_columns,   \* names of the value columns of its table, in order
          station_df,   \* rows of its table: date and precipitation entry
          precip_col,   \* the precipitation column found, <<>> for None
          cumulative,   \* is_cumulative
          precip_dates, \* dates stored in stations_data
          precip_values,\* values stored in stations_data
          precip_result,\* how the pass ended
          pipe_pc,      \* position of run_complete_pipeline
          pdf_files,    \* stations with a station PDF in the PDF directory
          csv_before,   \* stations whose CSV exists when the pipeline starts
          csv_written,  \* stations whose CSV convert_pdf_to_csv wrote
          pdf_todo,     \* PDFs the loop of convert_all_pdfs has not reached
          calls,        \* the steps started, in order
          convert_outcome,
          generate_outcome,
          update_ret,   \* what update_latex_plots did: True, False or raise
          pipe_ret,     \* value returned by run_complete_pipeline
          main_tex,     \* main.tex: absent, untouched or updated
          schedule,     \* rows handed to generate_operations_table_latex
          table_rows,   \* table_rows built by it
          table_pc,
          tex_lines,    \* lines of main.tex read by remove_duplicates.py
          new_lines,    \* lines written back by it
          dedup_pc,
          tex_exists,   \* main.tex exists
          tex_start,    \* content of main.tex before the first run
          tex,          \* content of main.tex
          plots,        \* files of the plots directory
          tex_month,    \* month argument of update_latex_plots
          tex_year,     \* year argument
          tex_runs,     \* runs of update_latex_plots so far
          tex_once,     \* content of main.tex after the first run
          tex_ret,      \* value returned by the last run
          nm_treatment, \* treatment station name of a boxplot
          nm_control,   \* control station name
          nm_file,      \* name of the file saved by plot_snow_depth_boxplots
          nm_figures,   \* (treatment, control) of the figures update_latex_plots emits
          nm_pc

wyVars == <<date, wy_ret>>
decVars == <<df, out_dates, water_year, daily_diff>>
aggIn == <<treatment_df, control_df, month, year>>
aggOut == <<merged, treatment_groups, control_groups, diff_groups,
            highlight_vals, result>>

repVars == <<station_kind, rpc, station_idx, loaded, precip_error, pair_idx, attempts,
             processed, plot_count>>

cfgVars == <<cfg_month, cfg_day>>

preIn == <<station_name, df_columns, station_df>>
preVars == <<preIn, precip_col, cumulative, precip_dates, precip_values,
             precip_result>>

pipeVars == <<pipe_pc, pdf_files, csv_before, csv_written, pdf_todo, calls,
              convert_outcome, generate_outcome, update_ret, pipe_ret, main_tex>>
tableVars == <<schedule, table_rows, table_pc>>
dedupVars == <<tex_lines, new_lines, dedup_pc>>
texIn == <<tex_exists, tex_start, plots, tex_month, tex_year>>
texVars == <<texIn, tex, tex_runs, tex_once, tex_ret>>
nmIn == <<nm_treatment, nm_control>>
nmVars == <<nmIn, nm_file, nm_figures, nm_pc>>

\* the report-writing side: pipeline, operations table, main.tex
lateVars == <<pipeVars, tableVars, dedupVars, texVars, nmVars>>

\* the plot-generating side
earlyVars == <<pc, wyVars, decVars, aggIn, aggOut, repVars, cfgVars, preVars>>

\* the state of the operations modelled further down
extVars == <<repVars, cfgVars, preVars, lateVars>>

vars == <<pc, wyVars, decVars, aggIn, aggOut, extVars>>

----------------------------------------------------------------------------
(* Bounds *)

MaxLen == 3             \* longest series handed to the decumulator
NumYears == 3           \* calendar years of the get_water_year date grid
FirstYear == 2024       \* first year of that grid
MaxRows == 2            \* most rows of one station's snow-depth table
MaxPrecipRows == 2      \* most rows of one station's precipitation table
NumTreatment == 2       \* length of the treatment station list
NumControl == 2         \* length of the control station list
NumPdfStations == 2     \* stations that may have a PDF and a CSV
MaxSchedule == 2        \* most rows of the operations schedule
MaxFigures == 3         \* most boxplot figures of main.tex
MaxTokens == 4          \* most pieces of main.tex handed to update_latex_plots

----------------------------------------------------------------------------
(* config.py *)

\* the water year starting a month late
WATER_YEAR_START_MONTH_nov == 11

WATER_YEAR_START_MONTH == 10
WATER_YEAR_START_DAY == 1

----------------------------------------------------------------------------
(* Values and dates *)

\* np.nan: the missing marker.  It is kept apart from every number: all
\* arithmetic and comparisons below test for it first, as IEEE NaN does.
NaN == 0 - 1000

isna(v) == v = NaN

\* a - b with missing operands read as zero
Sub_fill(a, b) == (IF isna(a) THEN 0 ELSE a) - (IF isna(b) THEN 0 ELSE b)

\* a - b on floats: NaN if either operand is NaN
Sub(a, b) == IF isna(a) \/ isna(b) THEN NaN ELSE a - b

\* a <= 0 in place of a < 0
Neg_le(a) == (~isna(a)) /\ a <= 0

\* a < 0 on floats: False for NaN
Neg(a) == (~isna(a)) /\ a < 0

\* Timestamp ordering
Ord(d) == d[1] * 10000 + d[2] * 100 + d[3]

CalDates == {<<y, m, d>> : y \in FirstYear..(FirstYear + NumYears - 1),
                           m \in 1..12, d \in {1, 15, 28}}

\* dates of the cumulative series: the last two days of water year 2025 and
\* three days of water year 2026, one of them after a gap and in the next
\* calendar year
Dates == {<<2025, 9, 29>>, <<2025, 9, 30>>, <<2025, 10, 1>>, <<2025, 10, 2>>,
          <<2026, 1, 5>>}

\* cumulative readings: missing, a negative reading, and positive readings
Values == {NaN, 0 - 2, 3, 5}

Readings == [Date : Dates, Value : Values]

Max(S) == CHOOSE x \in S : \A y \in S : y <= x
Min(S) == CHOOSE x \in S : \A y \in S : x <= y

----------------------------------------------------------------------------
(* plot_generators.py: get_water_year *)

\* the start month itself left in the old water year
get_water_year_gt(d) ==
    IF d[2] > WATER_YEAR_START_MONTH THEN d[1] + 1 ELSE d[1]

get_water_year(d) ==
    IF d[2] >= WATER_YEAR_START_MONTH THEN d[1] + 1 ELSE d[1]

----------------------------------------------------------------------------
(* plot_generators.py: handle_snotel_cumulative *)

\* the rows left in the order of the input
Inserts_front(x, s) == {<<x>> \o s}

\* the rows sorted by descending date
Inserts_desc(x, s) ==
    {SubSeq(s, 1, k) \o <<x>> \o SubSeq(s, k + 1, Len(s)) : k \in
        {k \in 0..Len(s) :
            /\ \A j \in 1..k : Ord(s[j].Date) >= Ord(x.Date)
            /\ \A j \in (k + 1)..Len(s) : Ord(x.Date) >= Ord(s[j].Date)}}

\* s with x inserted at some place that keeps the dates ascending
Inserts(x, s) ==
    {SubSeq(s, 1, k) \o <<x>> \o SubSeq(s, k + 1, Len(s)) : k \in
        {k \in 0..Len(s) :
            /\ \A j \in 1..k : Ord(s[j].Date) <= Ord(x.Date)
            /\ \A j \in (k + 1)..Len(s) : Ord(x.Date) <= Ord(s[j].Date)}}

\* df.sort_values(date_col).reset_index(drop=True): the default kind is
\* quicksort, which is not stable, so rows with equal dates may come out in
\* any order
RECURSIVE sort_values(_)
sort_values(s) ==
    IF s = <<>> THEN {<<>>}
    ELSE UNION {Inserts(Head(s), r) : r \in sort_values(Tail(s))}

\* df[date_col].apply(get_water_year)
water_year_col(s) == [i \in DOMAIN s |-> get_water_year(s[i].Date)]

\* the difference taken to the first row of the group
groupby_diff_first(s, wy) ==
    [i \in DOMAIN s |->
        LET prev == {j \in 1..(i - 1) : wy[j] = wy[i]}
        IN  IF prev = {} THEN NaN
            ELSE Sub(s[i].Value, s[Min(prev)].Value)]

\* df.groupby('water_year')[value_col].diff(): difference to the previous row
\* of the same group, NaN for the first row of a group
groupby_diff(s, wy) ==
    [i \in DOMAIN s |->
        LET prev == {j \in 1..(i - 1) : wy[j] = wy[i]}
        IN  IF prev = {} THEN NaN
            ELSE Sub(s[i].Value, s[Max(prev)].Value)]

\* no row recognised as the first day of its water year
first_day_mask_none(s, wy) == [i \in DOMAIN s |-> FALSE]

\* df.groupby('water_year')[date_col].transform('min') == df[date_col]
first_day_mask(s, wy) ==
    [i \in DOMAIN s |->
        Ord(s[i].Date) = Min({Ord(s[j].Date) : j \in {j \in DOMAIN s : wy[j] = wy[i]}})]

\* negative differences kept
daily_diff_col_noclamp(s, wy) ==
    [i \in DOMAIN s |->
        IF first_day_mask(s, wy)[i] THEN s[i].Value ELSE groupby_diff(s, wy)[i]]

\* lines 42-49: the group differences, the raw value on the first day of a
\* water year, and NaN in place of every negative difference
daily_diff_col(s, wy) ==
    [i \in DOMAIN s |->
        LET d == IF first_day_mask(s, wy)[i] THEN s[i].Value
                 ELSE groupby_diff(s, wy)[i]
        IN  IF Neg(d) THEN NaN ELSE d]

handle_snotel_cumulative ==
    /\ pc = "call"
    /\ \E s \in sort_values(df) :
          /\ out_dates' = s
          /\ water_year' = water_year_col(s)
          /\ daily_diff' = daily_diff_col(s, water_year_col(s))
    /\ pc' = "done"
    /\ UNCHANGED <<wyVars, df, aggIn, aggOut, extVars>>

\* the parts of the state a specification does not use
wyIdle == date = <<FirstYear, 1, 1>> /\ wy_ret = 0

decIdle == df = <<>> /\ out_dates = <<>> /\ water_year = <<>> /\ daily_diff = <<>>

aggOutInit ==
    /\ merged = <<>>
    /\ treatment_groups = <<>>
    /\ control_groups = <<>>
    /\ diff_groups = <<>>
    /\ highlight_vals = <<>>
    /\ result = "pending"

aggIdle ==
    /\ treatment_df = <<>> /\ control_df = <<>> /\ month = 1 /\ year = FirstYear
    /\ aggOutInit

\* generate_all_plots: the station lists (config.py TREATMENT_STATIONS and
\* CONTROL_STATIONS, or the arguments), as station numbers
Treatment == 1..NumTreatment
Control == (NumTreatment + 1)..(NumTreatment + NumControl)
NumStations == NumTreatment + NumControl
NumPairs == NumTreatment * NumControl

repStart ==
    /\ station_idx = 1
    /\ loaded = {}
    /\ precip_error = FALSE
    /\ pair_idx = 1
    /\ attempts = [i \in 1..NumPairs |-> 0]
    /\ processed = {}
    /\ plot_count = 0

repIdle ==
    /\ station_kind = [s \in 1..NumStations |-> "ok"]
    /\ rpc = "idle"
    /\ repStart

\* config.py as shipped
cfgIdle ==
    /\ cfg_month = WATER_YEAR_START_MONTH
    /\ cfg_day = WATER_YEAR_START_DAY

preStart ==
    /\ precip_col = <<>>
    /\ cumulative = FALSE
    /\ precip_dates = <<>>
    /\ precip_values = <<>>
    /\ precip_result = "pending"

preIdle ==
    /\ station_name = <<>>
    /\ df_columns = <<>>
    /\ station_df = <<>>
    /\ preStart

pipeStart ==
    /\ pipe_pc = "start"
    /\ csv_written = {}
    /\ pdf_todo = {}
    /\ calls = <<>>
    /\ convert_outcome = "pending"
    /\ generate_outcome = "pending"
    /\ update_ret = "pending"
    /\ pipe_ret = "pending"

pipeIdle ==
    /\ pdf_files = {}
    /\ csv_before = {}
    /\ main_tex = "absent"
    /\ pipeStart

tableIdle ==
    /\ schedule = <<>>
    /\ table_rows = <<>>
    /\ table_pc = "call"

dedupIdle ==
    /\ tex_lines = <<>>
    /\ new_lines = <<>>
    /\ dedup_pc = "call"

texStart ==
    /\ tex_runs = 0
    /\ tex_once = <<>>
    /\ tex_ret = "pending"

texIdle ==
    /\ tex_exists = FALSE
    /\ tex_start = <<>>
    /\ tex = <<>>
    /\ plots = {}
    /\ tex_month = 1
    /\ tex_year = FirstYear
    /\ texStart

nmStart ==
    /\ nm_file = <<>>
    /\ nm_figures = <<>>
    /\ nm_pc = "plot"

nmIdle ==
    /\ nm_treatment = <<>>
    /\ nm_control = <<>>
    /\ nmStart

lateIdle == pipeIdle /\ tableIdle /\ dedupIdle /\ texIdle /\ nmIdle

earlyIdle ==
    /\ pc = "call"
    /\ wyIdle
    /\ decIdle
    /\ aggIdle
    /\ repIdle
    /\ cfgIdle
    /\ preIdle

extIdle == repIdle /\ cfgIdle /\ preIdle /\ lateIdle

Init ==
    /\ pc = "call"
    /\ \E n \in 0..MaxLen : df \in [1..n -> Readings]
    /\ out_dates = <<>>
    /\ water_year = <<>>
    /\ daily_diff = <<>>
    /\ wyIdle
    /\ aggIdle
    /\ extIdle

Next == handle_snotel_cumulative

Spec == Init /\ [][Next]_vars

----------------------------------------------------------------------------
(* get_water_year applied to one calendar date *)

call_get_water_year ==
    /\ pc = "call"
    /\ wy_ret' = get_water_year(date)
    /\ pc' = "done"
    /\ UNCHANGED <<date, decVars, aggIn, aggOut, extVars>>

InitWY ==
    /\ pc = "call"
    /\ date \in CalDates
    /\ wy_ret = 0
    /\ decIdle
    /\ aggIdle
    /\ extIdle

NextWY == call_get_water_year

SpecWY == InitWY /\ [][NextWY]_vars

----------------------------------------------------------------------------
(* plot_generators.py: plot_snow_depth_boxplots *)

\* dates of the snow-depth tables: the target month in two years, a second
\* day of it, and a day of another month
SnowDates == {<<2024, 1, 5>>, <<2025, 1, 5>>, <<2025, 1, 6>>, <<2025, 2, 5>>}

TreatmentValues == {NaN, 10, 12}
ControlValues == {NaN, 8}

TargetMonths == {1, 2}
TargetYears == {2025}

RECURSIVE SelectSeq2(_, _)
\* the rows of s whose index is in K, in row order
SelectSeq2(s, K) ==
    IF s = <<>> THEN <<>>
    ELSE SelectSeq2(SubSeq(s, 1, Len(s) - 1), K)
            \o (IF Len(s) \in K THEN <<s[Len(s)]>> ELSE <<>>)

\* the rows of the target month of the highlighted year only
month_rows_year(frame, m) ==
    SelectSeq2(frame, {i \in DOMAIN frame :
                         frame[i].Date[2] = m /\ frame[i].Date[1] = year})

\* df[df['month'] == target_month]
month_rows(frame, m) == SelectSeq2(frame, {i \in DOMAIN frame : frame[i].Date[2] = m})

\* the values kept only on dates that have a value in both tables
dropna_values_joint(rows) ==
    LET both == {d \in SnowDates :
                   /\ \E i \in DOMAIN treatment_df :
                         treatment_df[i].Date = d /\ ~isna(treatment_df[i].Value)
                   /\ \E i \in DOMAIN control_df :
                         control_df[i].Date = d /\ ~isna(control_df[i].Value)}
        kept == SelectSeq2(rows, {i \in DOMAIN rows :
                                    ~isna(rows[i].Value) /\ rows[i].Date \in both})
    IN  [i \in DOMAIN kept |-> kept[i].Value]

\* ...['Value'].dropna().values
dropna_values(rows) ==
    LET kept == SelectSeq2(rows, {i \in DOMAIN rows : ~isna(rows[i].Value)})
    IN  [i \in DOMAIN kept |-> kept[i].Value]

index_of(rows) == [i \in DOMAIN rows |-> rows[i].Date]

is_unique(idx) == \A i \in DOMAIN idx : \A j \in DOMAIN idx : idx[i] = idx[j] => i = j

RECURSIVE sorted_dates(_)
\* the dates of a set in ascending order
sorted_dates(S) ==
    IF S = {} THEN <<>>
    ELSE LET d == CHOOSE x \in S : \A y \in S : Ord(x) <= Ord(y)
         IN  <<d>> \o sorted_dates(S \ {d})

\* a date absent from the series filled with zero
value_at_zero(rows, d) ==
    IF \E i \in DOMAIN rows : rows[i].Date = d
    THEN rows[CHOOSE i \in DOMAIN rows : rows[i].Date = d].Value
    ELSE 0

\* value of a uniquely indexed series at a date, NaN where the date is absent
value_at(rows, d) ==
    IF \E i \in DOMAIN rows : rows[i].Date = d
    THEN rows[CHOOSE i \in DOMAIN rows : rows[i].Date = d].Value
    ELSE NaN

\* pd.DataFrame({'Treatment': t_month, 'Control': c_month}): equal indexes are
\* taken as they are, row by row; otherwise both series are reindexed to the
\* sorted union of the two indexes, which pandas refuses ("cannot reindex on
\* an axis with duplicate labels") for a series whose index has duplicates
frame_raises(t_month, c_month) ==
    /\ index_of(t_month) # index_of(c_month)
    /\ ~(is_unique(index_of(t_month)) /\ is_unique(index_of(c_month)))

\* the frame with every missing entry filled with zero
frame_of_filled(t_month, c_month) ==
    LET fill(v) == IF isna(v) THEN 0 ELSE v
    IN  IF index_of(t_month) = index_of(c_month)
        THEN [i \in DOMAIN t_month |->
                [Date |-> t_month[i].Date, Treatment |-> fill(t_month[i].Value),
                 Control |-> fill(c_month[i].Value)]]
        ELSE LET idx == sorted_dates({t_month[i].Date : i \in DOMAIN t_month}
                                     \cup {c_month[i].Date : i \in DOMAIN c_month})
             IN  [i \in DOMAIN idx |->
                    [Date |-> idx[i],
                     Treatment |-> fill(value_at(t_month, idx[i])),
                     Control |-> fill(value_at(c_month, idx[i]))]]

frame_of(t_month, c_month) ==
    IF index_of(t_month) = index_of(c_month)
    THEN [i \in DOMAIN t_month |->
            [Date |-> t_month[i].Date, Treatment |-> t_month[i].Value,
             Control |-> c_month[i].Value]]
    ELSE LET idx == sorted_dates({t_month[i].Date : i \in DOMAIN t_month}
                                 \cup {c_month[i].Date : i \in DOMAIN c_month})
         IN  [i \in DOMAIN idx |->
                [Date |-> idx[i], Treatment |-> value_at(t_month, idx[i]),
                 Control |-> value_at(c_month, idx[i])]]

\* the difference taken as control minus treatment
merged_of_swapped(t_month, c_month) ==
    LET f == frame_of(t_month, c_month)
        kept == SelectSeq2(f, {i \in DOMAIN f :
                                 ~isna(f[i].Treatment) /\ ~isna(f[i].Control)})
    IN  [i \in DOMAIN kept |->
            [Date |-> kept[i].Date, Treatment |-> kept[i].Treatment,
             Control |-> kept[i].Control,
             Diff |-> kept[i].Control - kept[i].Treatment]]

\* merged.dropna() and merged['Diff'] = merged['Treatment'] - merged['Control']
merged_of(t_month, c_month) ==
    LET f == frame_of(t_month, c_month)
        kept == SelectSeq2(f, {i \in DOMAIN f :
                                 ~isna(f[i].Treatment) /\ ~isna(f[i].Control)})
    IN  [i \in DOMAIN kept |->
            [Date |-> kept[i].Date, Treatment |-> kept[i].Treatment,
             Control |-> kept[i].Control,
             Diff |-> kept[i].Treatment - kept[i].Control]]

RECURSIVE SumSeq(_)
SumSeq(s) == IF s = <<>> THEN 0 ELSE s[1] + SumSeq(Tail(s))

\* Series.mean() of a non-empty column without missing values, kept exact as
\* the pair <<sum, count>>
mean(s) == <<SumSeq(s), Len(s)>>

column(rows, name) == [i \in DOMAIN rows |-> rows[i][name]]

plot_snow_depth_boxplots ==
    /\ pc = "call"
    /\ LET t_month == month_rows(treatment_df, month)
           c_month == month_rows(control_df, month)
           t_data == dropna_values(t_month)
           c_data == dropna_values(c_month)
       IN  IF Len(t_data) > 0 /\ Len(c_data) > 0
           THEN IF frame_raises(t_month, c_month)
                THEN /\ result' = "raise"
                     /\ UNCHANGED <<merged, treatment_groups, control_groups,
                                    diff_groups, highlight_vals>>
                ELSE LET m == merged_of(t_month, c_month)
                     IN  /\ merged' = m
                         /\ IF Len(m) > 0
                            THEN /\ treatment_groups' = <<t_data>>
                                 /\ control_groups' = <<c_data>>
                                 /\ diff_groups' = <<column(m, "Diff")>>
                                 /\ highlight_vals' =
                                       IF year # 0
                                       THEN <<[t |-> mean(column(m, "Treatment")),
                                               c |-> mean(column(m, "Control")),
                                               d |-> mean(column(m, "Diff"))]>>
                                       ELSE <<>>
                                 /\ result' = "file"
                            ELSE /\ result' = "None"
                                 /\ UNCHANGED <<treatment_groups, control_groups,
                                                diff_groups, highlight_vals>>
           ELSE /\ result' = "None"
                /\ UNCHANGED <<merged, treatment_groups, control_groups,
                               diff_groups, highlight_vals>>
    /\ pc' = "done"
    /\ UNCHANGED <<wyVars, decVars, aggIn, extVars>>

InitAgg ==
    /\ pc = "call"
    /\ \E n \in 0..MaxRows :
          treatment_df \in [1..n -> [Date : SnowDates, Value : TreatmentValues]]
    /\ \E n \in 0..MaxRows :
          control_df \in [1..n -> [Date : SnowDates, Value : ControlValues]]
    /\ month \in TargetMonths
    /\ year \in TargetYears
    /\ aggOutInit
    /\ wyIdle
    /\ decIdle
    /\ extIdle

NextAgg == plot_snow_depth_boxplots

SpecAgg == InitAgg /\ [][NextAgg]_vars

----------------------------------------------------------------------------
(* generate_report.py: generate_all_plots *)

\* what the CSV directory holds for a station
StationKinds == {"ok", "no_csv", "no_date_col"}

\* plot_generators.py load_station_data: None when the CSV file is missing
\* (lines 58-60) or no date column is found (lines 72-74), the table otherwise
load_station_data(kind) == IF kind = "ok" THEN "table" ELSE "None"

\* the pairs in the order of the two nested loops
treatment_of(i) == ((i - 1) \div NumControl) + 1
control_of(i) == NumTreatment + ((i - 1) % NumControl) + 1

\* a station that cannot be loaded ending the precipitation loop
station_after_stop(i, res) == IF res = "None" THEN NumStations + 1 ELSE i + 1

\* lines 116-118: a station whose load returned None is skipped and the loop
\* goes on with the next station
station_after(i, res) == i + 1

\* an exception of one pair ending the loop over the pairs
pair_after_stop(i, outcome) == IF outcome = "raise" THEN NumPairs + 1 ELSE i + 1

\* lines 155-163: the call is wrapped in its own try/except inside the loops,
\* so the loop goes on with the next pair after every outcome
pair_after(i, outcome) == i + 1

\* line 100: load_operations_data is called outside every try block; an
\* exception of pd.read_csv or pd.to_datetime leaves generate_all_plots
load_operations_data ==
    /\ rpc = "start"
    /\ \E res \in {"frame", "raise"} :
          rpc' = IF res = "raise" THEN "aborted" ELSE "schedule"
    /\ UNCHANGED <<station_kind, station_idx, loaded, precip_error, pair_idx, attempts,
                   processed, plot_count>>
    /\ UNCHANGED <<pc, wyVars, decVars, aggIn, aggOut, cfgVars, preVars, lateVars>>

\* lines 102-107: the schedule plot, its exceptions printed and dropped
operations_schedule_step ==
    /\ rpc = "schedule"
    /\ rpc' = "precip"
    /\ UNCHANGED <<station_kind, station_idx, loaded, precip_error, pair_idx, attempts,
                   processed, plot_count>>
    /\ UNCHANGED <<pc, wyVars, decVars, aggIn, aggOut, cfgVars, preVars, lateVars>>

\* lines 116-139: one station of the precipitation loop; an exception while
\* its values are prepared is caught by the try around the whole step
precip_station ==
    /\ rpc = "precip"
    /\ station_idx <= NumStations
    /\ LET res == load_station_data(station_kind[station_idx])
       IN  IF res = "None"
           THEN /\ station_idx' = station_after(station_idx, res)
                /\ UNCHANGED <<loaded, precip_error, rpc>>
           ELSE /\ loaded' = loaded \cup {station_idx}
                /\ \E outcome \in {"values", "raise"} :
                      IF outcome = "raise"
                      THEN precip_error' = TRUE /\ rpc' = "boxplots" /\ station_idx' = station_idx
                      ELSE station_idx' = station_idx + 1 /\ UNCHANGED <<precip_error, rpc>>
    /\ UNCHANGED <<station_kind, pair_idx, attempts, processed, plot_count>>
    /\ UNCHANGED <<pc, wyVars, decVars, aggIn, aggOut, cfgVars, preVars, lateVars>>

\* lines 141-146: the summary plot or the warning, exceptions dropped
precip_summary ==
    /\ rpc = "precip"
    /\ station_idx > NumStations
    /\ rpc' = "boxplots"
    /\ UNCHANGED <<station_kind, station_idx, loaded, precip_error, pair_idx, attempts,
                   processed, plot_count>>
    /\ UNCHANGED <<pc, wyVars, decVars, aggIn, aggOut, cfgVars, preVars, lateVars>>

\* lines 152-163: one pair.  plot_snow_depth_boxplots unpacks the result of
\* load_station_data (plot_generators.py lines 257-258), which raises
\* TypeError for a station that returns None; with both tables loaded the
\* call ends in a file, in None or in an exception
boxplot_pair ==
    /\ rpc = "boxplots"
    /\ pair_idx <= NumPairs
    /\ LET both == /\ load_station_data(station_kind[treatment_of(pair_idx)]) # "None"
                   /\ load_station_data(station_kind[control_of(pair_idx)]) # "None"
       IN  /\ processed' = IF both THEN processed \cup {pair_idx} ELSE processed
           /\ \E outcome \in (IF both THEN {"file", "None", "raise"} ELSE {"raise"}) :
                 /\ plot_count' = IF outcome = "file" THEN plot_count + 1
                                  ELSE plot_count
                 /\ pair_idx' = pair_after(pair_idx, outcome)
    /\ attempts' = [attempts EXCEPT ![pair_idx] = @ + 1]
    /\ UNCHANGED <<station_kind, rpc, station_idx, loaded, precip_error>>
    /\ UNCHANGED <<pc, wyVars, decVars, aggIn, aggOut, cfgVars, preVars, lateVars>>

\* lines 164-170: the count and the completion banner
report_complete ==
    /\ rpc = "boxplots"
    /\ pair_idx > NumPairs
    /\ rpc' = "complete"
    /\ UNCHANGED <<station_kind, station_idx, loaded, precip_error, pair_idx, attempts,
                   processed, plot_count>>
    /\ UNCHANGED <<pc, wyVars, decVars, aggIn, aggOut, cfgVars, preVars, lateVars>>

InitReport ==
    /\ station_kind \in [1..NumStations -> StationKinds]
    /\ rpc = "start"
    /\ repStart
    /\ pc = "call"
    /\ wyIdle
    /\ decIdle
    /\ aggIdle
    /\ cfgIdle
    /\ preIdle
    /\ lateIdle

NextReport ==
    \/ load_operations_data
    \/ operations_schedule_step
    \/ precip_station
    \/ precip_summary
    \/ boxplot_pair
    \/ report_complete

\* the script runs to its end: a step that can be taken is taken
SpecReport == InitReport /\ [][NextReport]_vars /\ WF_vars(NextReport)

----------------------------------------------------------------------------
(* get_water_year under an edited config.py *)

\* values an operator may write into config.py
StartMonths == {9, 10}
StartDays == {1, 15}

\* plot_generators.py lines 22-26 with the imported constant as a parameter:
\* the month of the date is compared with WATER_YEAR_START_MONTH, and
\* WATER_YEAR_START_DAY, imported at lines 16-18, is not read
get_water_year_from(d, start_month, start_day) ==
    IF d[2] >= start_month THEN d[1] + 1 ELSE d[1]

configured_get_water_year ==
    /\ pc = "call"
    /\ wy_ret' = get_water_year_from(date, cfg_month, cfg_day)
    /\ pc' = "done"
    /\ UNCHANGED <<date, decVars, aggIn, aggOut, repVars, cfgVars, preVars, lateVars>>

InitCfg ==
    /\ pc = "call"
    /\ date \in CalDates
    /\ wy_ret = 0
    /\ cfg_month \in StartMonths
    /\ cfg_day \in StartDays
    /\ decIdle
    /\ aggIdle
    /\ repIdle
    /\ preIdle
    /\ lateIdle

NextCfg == configured_get_water_year

SpecCfg == InitCfg /\ [][NextCfg]_vars

----------------------------------------------------------------------------
(* generate_report.py lines 116-139: the precipitation values of one station.
   Names are sequences of characters. *)

UpperCase == <<"A", "B", "C", "D", "E", "F", "G", "H", "I", "J", "K", "L", "M",
               "N", "O", "P", "Q", "R", "S", "T", "U", "V", "W", "X", "Y", "Z">>
LowerCase == <<"a", "b", "c", "d", "e", "f", "g", "h", "i", "j", "k", "l", "m",
               "n", "o", "p", "q", "r", "s", "t", "u", "v", "w", "x", "y", "z">>

\* str.lower() of one character and of a name
lower_char(c) ==
    IF \E i \in DOMAIN UpperCase : UpperCase[i] = c
    THEN LowerCase[CHOOSE i \in DOMAIN UpperCase : UpperCase[i] = c]
    ELSE c

lower(name) == [i \in DOMAIN name |-> lower_char(name[i])]

\* sub in name
contains(name, sub) ==
    \E i \in 1..(Len(name) - Len(sub) + 1) :
        SubSeq(name, i, i + Len(sub) - 1) = sub

StationNames == {<<"S", "N", "O", "T", "E", "L", " ", "A">>,
                 <<"S", "n", "o", "t", "e", "l">>,
                 <<"G", "o", "l", "d">>,
                 <<"s", "n", "o", "w", "t", "e", "l">>}

ColumnNames == {<<"P", "r", "e", "c", "i", "p">>,
                <<"P", "R", "C", "P", " ", "A", "C", "C", "U", "M">>,
                <<"A", "c", "c", "u", "m">>,
                <<"p", "r", "c", "p", " ", "a", "c", "c", "u", "m">>}

\* a CSV entry that is not a number
NonNumeric == 0 - 2000

PrecipDates == {<<2025, 9, 30>>, <<2025, 10, 1>>, <<2025, 10, 2>>}
PrecipEntries == {NaN, NonNumeric, 3, 5}
PrecipRows == [Date : PrecipDates, Value : PrecipEntries]

\* lines 122-127: the first column whose lower-cased name contains 'precip'
\* or 'prcp', None when there is none
is_precip_col(col) ==
    \/ contains(lower(col), <<"p", "r", "e", "c", "i", "p">>)
    \/ contains(lower(col), <<"p", "r", "c", "p">>)

find_precip_col(cols) ==
    IF \E i \in DOMAIN cols : is_precip_col(cols[i])
    THEN cols[Min({i \in DOMAIN cols : is_precip_col(cols[i])})]
    ELSE <<>>

\* the test made on the names as they are written
is_cumulative_cased(name, col) ==
    \/ contains(name, <<"s", "n", "o", "t", "e", "l">>)
    \/ contains(col, <<"a", "c", "c", "u", "m">>)

\* line 131
is_cumulative(name, col) ==
    \/ contains(lower(name), <<"s", "n", "o", "t", "e", "l">>)
    \/ contains(lower(col), <<"a", "c", "c", "u", "m">>)

\* pd.to_numeric(..., errors='coerce') on one entry
to_numeric(v) == IF v = NonNumeric THEN NaN ELSE v

\* one pass of the loop body for a loaded table.  A column with a
\* non-numeric entry is read as text, whose differences raise in the
\* decumulator; the exception is caught at line 145
precip_values_step ==
    /\ precip_result = "pending"
    /\ LET col == find_precip_col(df_columns)
           cum == is_cumulative(station_name, col)
       IN  /\ precip_col' = col
           /\ IF col = <<>>
              THEN /\ precip_result' = "skipped"
                   /\ UNCHANGED <<cumulative, precip_dates, precip_values>>
              ELSE /\ cumulative' = cum
                   /\ IF cum
                      THEN IF \E i \in DOMAIN station_df :
                                  station_df[i].Value = NonNumeric
                           THEN /\ precip_result' = "raise"
                                /\ UNCHANGED <<precip_dates, precip_values>>
                           ELSE /\ \E srt \in sort_values(station_df) :
                                      /\ precip_dates' =
                                            [i \in DOMAIN srt |-> srt[i].Date]
                                      /\ precip_values' =
                                            daily_diff_col(srt, water_year_col(srt))
                                /\ precip_result' = "stored"
                      ELSE /\ precip_dates' =
                                 [i \in DOMAIN station_df |-> station_df[i].Date]
                           /\ precip_values' =
                                 [i \in DOMAIN station_df |->
                                     to_numeric(station_df[i].Value)]
                           /\ precip_result' = "stored"
    /\ UNCHANGED <<pc, wyVars, decVars, aggIn, aggOut, repVars, cfgVars, preIn, lateVars>>

InitPrecip ==
    /\ station_name \in StationNames
    /\ \E n \in 1..2 : df_columns \in [1..n -> ColumnNames]
    /\ \E n \in 0..MaxPrecipRows : station_df \in [1..n -> PrecipRows]
    /\ preStart
    /\ pc = "call"
    /\ wyIdle
    /\ decIdle
    /\ aggIdle
    /\ repIdle
    /\ cfgIdle
    /\ lateIdle

NextPrecip == precip_values_step

SpecPrecip == InitPrecip /\ [][NextPrecip]_vars

----------------------------------------------------------------------------
(* complete_pipeline.py: run_complete_pipeline, with the loop of
   pdf_to_csv.py convert_all_pdfs *)

PdfStations == 1..NumPdfStations

\* the pipeline stopping at a failed conversion
after_convert_stop(outcome) == IF outcome = "raise" THEN "returned" ELSE "generate"

\* lines 33-37: an exception of convert_all_pdfs is printed and step 2 follows
after_convert(outcome) == "generate"

\* lines 41-45: an exception of generate_all_plots ends the pipeline
after_generate(outcome) == IF outcome = "raise" THEN "returned" ELSE "update"

\* lines 49-59: False after an exception of update_latex_plots; the value it
\* returns is not read, and True is returned after every return
pipeline_result(outcome) == IF outcome = "raise" THEN "False" ELSE "True"

\* update_latex.py lines 30-32 and 173-178: False when main.tex does not
\* exist, True after the content is written; an I/O error raises
update_outcomes(file) == IF file = "absent" THEN {"False"} ELSE {"True", "raise"}

\* lines 30-34 and pdf_to_csv.py lines 271-285: the station PDFs are listed
begin_convert ==
    /\ pipe_pc = "start"
    /\ calls' = Append(calls, "convert_all_pdfs")
    /\ pdf_todo' = pdf_files
    /\ pipe_pc' = "convert"
    /\ UNCHANGED <<pdf_files, csv_before, csv_written, convert_outcome,
                   generate_outcome, update_ret, pipe_ret, main_tex>>
    /\ UNCHANGED <<earlyVars, tableVars, dedupVars, texVars, nmVars>>

\* pdf_to_csv.py lines 288-296 with convert_pdf_to_csv (208-268): one PDF.
\* The output file is written with df.to_csv whenever a table was extracted;
\* no line looks whether the CSV exists.  Without a table the function
\* returns None; an exception leaves convert_all_pdfs
convert_pdf_to_csv ==
    /\ pipe_pc = "convert"
    /\ \E st \in pdf_todo, outcome \in {"saved", "None", "raise"} :
          /\ pdf_todo' = pdf_todo \ {st}
          /\ csv_written' = IF outcome = "saved" THEN csv_written \cup {st}
                            ELSE csv_written
          /\ IF outcome = "raise"
             THEN /\ convert_outcome' = "raise"
                  /\ pipe_pc' = after_convert("raise")
             ELSE UNCHANGED <<convert_outcome, pipe_pc>>
    /\ UNCHANGED <<pdf_files, csv_before, calls, generate_outcome, update_ret,
                   pipe_ret, main_tex>>
    /\ UNCHANGED <<earlyVars, tableVars, dedupVars, texVars, nmVars>>

\* pdf_to_csv.py lines 298-299: the loop is over
convert_all_pdfs_returns ==
    /\ pipe_pc = "convert"
    /\ pdf_todo = {}
    /\ convert_outcome' = "returned"
    /\ pipe_pc' = after_convert("returned")
    /\ UNCHANGED <<pdf_files, csv_before, csv_written, pdf_todo, calls,
                   generate_outcome, update_ret, pipe_ret, main_tex>>
    /\ UNCHANGED <<earlyVars, tableVars, dedupVars, texVars, nmVars>>

\* lines 39-45
step_generate_plots ==
    /\ pipe_pc = "generate"
    /\ calls' = Append(calls, "generate_all_plots")
    /\ \E outcome \in {"returned", "raise"} :
          /\ generate_outcome' = outcome
          /\ pipe_pc' = after_generate(outcome)
          /\ pipe_ret' = IF outcome = "raise" THEN "False" ELSE pipe_ret
    /\ UNCHANGED <<pdf_files, csv_before, csv_written, pdf_todo,
                   convert_outcome, update_ret, main_tex>>
    /\ UNCHANGED <<earlyVars, tableVars, dedupVars, texVars, nmVars>>

\* lines 47-59
step_update_latex ==
    /\ pipe_pc = "update"
    /\ calls' = Append(calls, "update_latex_plots")
    /\ \E outcome \in update_outcomes(main_tex) :
          /\ update_ret' = outcome
          /\ main_tex' = IF outcome = "True" THEN "updated" ELSE main_tex
          /\ pipe_ret' = pipeline_result(outcome)
    /\ pipe_pc' = "returned"
    /\ UNCHANGED <<pdf_files, csv_before, csv_written, pdf_todo,
                   convert_outcome, generate_outcome>>
    /\ UNCHANGED <<earlyVars, tableVars, dedupVars, texVars, nmVars>>

InitPipe ==
    /\ pdf_files \in SUBSET PdfStations
    /\ csv_before \in SUBSET PdfStations
    /\ main_tex \in {"absent", "untouched"}
    /\ pipeStart
    /\ earlyIdle
    /\ tableIdle
    /\ dedupIdle
    /\ texIdle
    /\ nmIdle

NextPipe ==
    \/ begin_convert
    \/ convert_pdf_to_csv
    \/ convert_all_pdfs_returns
    \/ step_generate_plots
    \/ step_update_latex

SpecPipe == InitPipe /\ [][NextPipe]_vars

----------------------------------------------------------------------------
(* parse_operations_table.py: generate_operations_table_latex.  A day is the
   day of the month of the row's Date; the schedule is in Date order, as
   parse_operations_data returns it (line 128). *)

ScheduleDays == 1..3
ScheduleRows == [Day : ScheduleDays, Operating : BOOLEAN,
                 On_Time : {"None", "1158"}, Off_Time : {"None", "2356"}]

\* lines 149-153: the status text of a row, kept from the raw entry
status_text(row) == <<row.On_Time, row.Off_Time, row.Operating>>

\* lines 156-159: a range is open and status, on time and off time are equal
can_merge(cur, row) ==
    /\ cur.open
    /\ cur.status = row.Operating
    /\ cur.on_time = row.On_Time
    /\ cur.off_time = row.Off_Time

\* lines 165-175 and 186-196: the table row of a range
table_row(cur) ==
    [date |-> IF cur.first = cur.last
              THEN [kind |-> "day", first |-> cur.first, last |-> cur.first]
              ELSE [kind |-> "range", first |-> cur.first, last |-> cur.last],
     status |-> cur.text,
     is_on |-> cur.status]

no_range ==
    [open |-> FALSE, first |-> 0, last |-> 0, status |-> FALSE,
     on_time |-> "None", off_time |-> "None",
     text |-> <<"None", "None", FALSE>>]

\* lines 143-196: the loop over the rows, then the last range
RECURSIVE group_rows(_, _, _, _)
group_rows(rows, i, cur, acc) ==
    IF i > Len(rows)
    THEN IF cur.open THEN Append(acc, table_row(cur)) ELSE acc
    ELSE IF can_merge(cur, rows[i])
         THEN group_rows(rows, i + 1, [cur EXCEPT !.last = rows[i].Day], acc)
         ELSE group_rows(rows, i + 1,
                         [open |-> TRUE, first |-> rows[i].Day,
                          last |-> rows[i].Day, status |-> rows[i].Operating,
                          on_time |-> rows[i].On_Time,
                          off_time |-> rows[i].Off_Time,
                          text |-> status_text(rows[i])],
                         IF cur.open THEN Append(acc, table_row(cur)) ELSE acc)

generate_operations_table_latex ==
    /\ table_pc = "call"
    /\ table_rows' = group_rows(schedule, 1, no_range, <<>>)
    /\ table_pc' = "done"
    /\ UNCHANGED schedule
    /\ UNCHANGED <<earlyVars, pipeVars, dedupVars, texVars, nmVars>>

InitTable ==
    /\ \E n \in 0..MaxSchedule : schedule \in [1..n -> ScheduleRows]
    /\ \A i \in 1..(Len(schedule) - 1) : schedule[i].Day <= schedule[i + 1].Day
    /\ table_rows = <<>>
    /\ table_pc = "call"
    /\ earlyIdle
    /\ pipeIdle
    /\ dedupIdle
    /\ texIdle
    /\ nmIdle

NextTable == generate_operations_table_latex

SpecTable == InitTable /\ [][NextTable]_vars

----------------------------------------------------------------------------
(* remove_duplicates.py.  main.tex is a sequence of lines; a boxplot figure
   is written on the lines that update_latex_plots emits for it
   (update_latex.py lines 121-129). *)

\* a plot file <year><month>_SnowDepth_<stem>.png
FigureFiles == [ym : {202511, 202512},
                stem : {"La_Sal_Mtn_vs_Camp_jackson", "Gold_Basin_vs_Elke_Ridge"}]

TextLine == [kind |-> "text"]
RadiometerLine == [kind |-> "radiometer"]

figure_lines(file) ==
    << [kind |-> "begin"], [kind |-> "centering"],
       [kind |-> "include", file |-> file], [kind |-> "caption"],
       [kind |-> "end"], [kind |-> "blank"] >>

RECURSIVE document_lines(_)
document_lines(files) ==
    IF files = <<>> THEN <<>>
    ELSE figure_lines(Head(files)) \o document_lines(Tail(files))

\* line 13 and line 43: the line holds 'SnowDepth' and 'includegraphics' /
\* '.png'
is_snow_line(line) == line.kind = "include"

\* line 46: re.search(r'SnowDepth[^}]+\.png', line): the match starts at
\* 'SnowDepth', so the <year><month>_ prefix of the name is not part of it
extract_filename(line) == line.file.stem

\* lines 15-18: the nearest '\begin{figure}' among the line itself and the
\* four lines above it (positions counted from 1; the first line of the
\* file is never looked at)
figure_start(lines, i) ==
    LET lo == (IF i - 6 > 0 THEN i - 6 ELSE 0) + 2
        found == {j \in lo..i : lines[j].kind = "begin"}
    IN  IF found = {} THEN 0 ELSE Max(found)

\* lines 12-21: start_idx and radiometer_idx, 0 for None
RECURSIVE find_section(_, _, _)
find_section(lines, i, start) ==
    IF i > Len(lines) THEN [start |-> start, radiometer |-> 0]
    ELSE LET st == IF is_snow_line(lines[i]) /\ start = 0
                   THEN figure_start(lines, i) ELSE start
         IN  IF lines[i].kind = "radiometer"
             THEN [start |-> st, radiometer |-> i]
             ELSE find_section(lines, i + 1, st)

\* lines 33-61: the figures kept, as lines
RECURSIVE collect_unique(_, _, _, _, _, _, _)
collect_unique(lines, i, stop, in_figure, current_figure, seen_filenames, unique_figures) ==
    IF i >= stop THEN unique_figures
    ELSE LET line == lines[i]
         IN  IF line.kind = "begin"
             THEN collect_unique(lines, i + 1, stop, TRUE, <<line>>,
                                 seen_filenames, unique_figures)
             ELSE IF in_figure
             THEN IF is_snow_line(line)
                     /\ extract_filename(line) \in seen_filenames
                  THEN collect_unique(lines, i + 1, stop, FALSE, <<>>,
                                      seen_filenames, unique_figures)
                  ELSE LET seen == IF is_snow_line(line)
                                   THEN seen_filenames \cup {extract_filename(line)}
                                   ELSE seen_filenames
                           cur == Append(current_figure, line)
                       IN  IF line.kind = "end"
                           THEN collect_unique(lines, i + 1, stop, FALSE, <<>>,
                                               seen, unique_figures \o cur)
                           ELSE collect_unique(lines, i + 1, stop, TRUE, cur,
                                               seen, unique_figures)
             ELSE collect_unique(lines, i + 1, stop, in_figure, current_figure,
                                 seen_filenames, unique_figures)

\* the whole script: exit(1) without writing when a boundary is missing
\* (lines 23-25), else the file is rewritten (lines 64-67)
remove_duplicates ==
    /\ dedup_pc = "call"
    /\ LET sec == find_section(tex_lines, 1, 0)
       IN  IF sec.start = 0 \/ sec.radiometer = 0
           THEN /\ dedup_pc' = "exit"
                /\ new_lines' = tex_lines
           ELSE /\ dedup_pc' = "written"
                /\ new_lines' =
                      SubSeq(tex_lines, 1, sec.start - 1)
                      \o collect_unique(tex_lines, sec.start, sec.radiometer,
                                        FALSE, <<>>, {}, <<>>)
                      \o << [kind |-> "blank"] >>
                      \o SubSeq(tex_lines, sec.radiometer, Len(tex_lines))
    /\ UNCHANGED tex_lines
    /\ UNCHANGED <<earlyVars, pipeVars, tableVars, texVars, nmVars>>

InitDedup ==
    /\ \E n \in 0..MaxFigures : \E files \in [1..n -> FigureFiles] :
          \E tail \in {<<>>, <<RadiometerLine, TextLine>>} :
              tex_lines = <<TextLine>> \o document_lines(files) \o tail
    /\ new_lines = <<>>
    /\ dedup_pc = "call"
    /\ earlyIdle
    /\ pipeIdle
    /\ tableIdle
    /\ texIdle
    /\ nmIdle

NextDedup == remove_duplicates

SpecDedup == InitDedup /\ [][NextDedup]_vars

----------------------------------------------------------------------------
(* The boxplot file name: written by plot_snow_depth_boxplots
   (plot_generators.py lines 408-412), read back by update_latex_plots
   (update_latex.py lines 108-130).  Names are sequences of characters. *)

\* str.startswith
starts_with(str, prefix) ==
    Len(prefix) <= Len(str) /\ SubSeq(str, 1, Len(prefix)) = prefix

\* str.replace(old, new): the occurrences of old, from the left, not
\* overlapping
RECURSIVE str_replace(_, _, _)
str_replace(str, old, new) ==
    IF str = <<>> THEN <<>>
    ELSE IF starts_with(str, old)
         THEN new \o str_replace(SubSeq(str, Len(old) + 1, Len(str)), old, new)
         ELSE <<Head(str)>> \o str_replace(Tail(str), old, new)

\* str.split(sep), with the part being read carried along
RECURSIVE str_split(_, _, _)
str_split(str, sep, part) ==
    IF str = <<>> THEN <<part>>
    ELSE IF starts_with(str, sep)
         THEN <<part>> \o str_split(SubSeq(str, Len(sep) + 1, Len(str)), sep, <<>>)
         ELSE str_split(Tail(str), sep, Append(part, Head(str)))

Digit == <<"0", "1", "2", "3", "4", "5", "6", "7", "8", "9">>

\* str(n) of a natural number
RECURSIVE decimal(_)
decimal(n) ==
    IF n < 10 THEN <<Digit[n + 1]>>
    ELSE Append(decimal(n \div 10), Digit[(n % 10) + 1])

\* f"{year}{month:02d}"
year_month(y, m) ==
    decimal(y) \o (IF m < 10 THEN <<"0">> \o decimal(m) ELSE decimal(m))

\* f"{year}{month:02d}_SnowDepth_"
snow_prefix(y, m) == year_month(y, m) \o <<"_", "S", "n", "o", "w", "D", "e", "p", "t", "h", "_">>

Png == <<".", "p", "n", "g">>

\* plot_generators.py lines 410-411
clean_station(name) ==
    str_replace(str_replace(name, <<" ">>, <<"_">>), <<"/">>, <<"_">>)

\* plot_generators.py line 412, the name of the output file
boxplot_filename(treatment, control, y, m) ==
    snow_prefix(y, m) \o clean_station(treatment) \o <<"_", "v", "s", "_">>
        \o clean_station(control) \o Png

\* update_latex.py line 116
filename_parts(filename, y, m) ==
    str_split(str_replace(str_replace(filename, snow_prefix(y, m), <<>>),
                          Png, <<>>),
              <<"_", "v", "s", "_">>, <<>>)

\* update_latex.py lines 113-130: one figure for every file whose name has
\* two parts, with the names its caption shows
RECURSIVE boxplot_figures(_, _, _)
boxplot_figures(files, y, m) ==
    IF files = <<>> THEN <<>>
    ELSE LET parts == filename_parts(Head(files), y, m)
         IN  (IF Len(parts) = 2
              THEN << [kind |-> "snow_figure", name |-> Head(files),
                       treatment |-> str_replace(parts[1], <<"_">>, <<" ">>),
                       control |-> str_replace(parts[2], <<"_">>, <<" ">>),
                       cap_month |-> m, cap_year |-> y] >>
              ELSE <<>>)
             \o boxplot_figures(Tail(files), y, m)

NamedStations == {<<"L", "a", " ", "S", "a", "l", " ", "M", "t", "n">>,
                  <<"G", "o", "l", "d", " ", "B", "a", "s", "i", "n">>,
                  <<"C", "a", "m", "p", " ", "j", "a", "c", "k", "s", "o", "n">>,
                  <<"E", "l", "k", "e", " ", "R", "i", "d", "g", "e">>,
                  <<"G", "e", "y", "s", "e", "r", " ", "P", "a", "s", "s", "/", "U", "p", "p", "e", "r">>,
                  <<"P", "r", "e", "_", "L", "a", "u", "r", "e", "l">>}

\* plot_snow_depth_boxplots saves the plot of the pair (lines 408-415)
save_boxplot ==
    /\ nm_pc = "plot"
    /\ nm_file' = boxplot_filename(nm_treatment, nm_control, 2025, 12)
    /\ nm_pc' = "latex"
    /\ UNCHANGED <<nmIn, nm_figures>>
    /\ UNCHANGED <<earlyVars, pipeVars, tableVars, dedupVars, texVars>>

\* update_latex_plots builds the figures of the files it finds
emit_boxplot_figures ==
    /\ nm_pc = "latex"
    /\ nm_figures' = boxplot_figures(<<nm_file>>, 2025, 12)
    /\ nm_pc' = "done"
    /\ UNCHANGED <<nmIn, nm_file>>
    /\ UNCHANGED <<earlyVars, pipeVars, tableVars, dedupVars, texVars>>

InitNames ==
    /\ nm_treatment \in NamedStations
    /\ nm_control \in NamedStations
    /\ nmStart
    /\ earlyIdle
    /\ pipeIdle
    /\ tableIdle
    /\ dedupIdle
    /\ texIdle

NextNames == save_boxplot \/ emit_boxplot_figures

SpecNames == InitNames /\ [][NextNames]_vars

----------------------------------------------------------------------------
(* update_latex.py: update_latex_plots.  The content of main.tex is the
   sequence of its pieces that a pattern of the function can match, with a
   "text" piece for anything else between them (white space is no piece):
     ref85           \includegraphics[width=0.85\textwidth]{name}
     ops_caption     \caption{WETA operating schedule during ...}
     brace           a closing brace left behind a caption
     precip_caption  \caption{Summary of daily accumulated precipitation...}
     snow_figure     a figure with a 0.95-width SnowDepth plot and a caption
     radiometer      \subsection{Analysis of Radiometer Data}
     dates, focus, docname   the dated sentences and the document name *)

\* the characters of the file names, in code point order
CodePoints == <<" ", ".", "/", "0", "1", "2", "3", "4", "5", "6", "7", "8", "9">>
              \o UpperCase \o <<"_">> \o LowerCase

code_point(c) == CHOOSE i \in DOMAIN CodePoints : CodePoints[i] = c

\* a < b for two names
RECURSIVE str_less(_, _)
str_less(a, b) ==
    IF b = <<>> THEN FALSE
    ELSE IF a = <<>> THEN TRUE
    ELSE IF Head(a) = Head(b) THEN str_less(Tail(a), Tail(b))
    ELSE code_point(Head(a)) < code_point(Head(b))

\* sorted(...) of a set of names
RECURSIVE sorted_names(_)
sorted_names(S) ==
    IF S = {} THEN <<>>
    ELSE LET least == CHOOSE a \in S : \A b \in S \ {a} : str_less(a, b)
         IN  <<least>> \o sorted_names(S \ {least})

\* str.endswith
ends_with(str, suffix) ==
    /\ Len(suffix) <= Len(str)
    /\ SubSeq(str, Len(str) - Len(suffix) + 1, Len(str)) = suffix

\* line 108: sorted(PLOTS_DIR.glob(f"{year}{month:02d}_SnowDepth_*.png"))
glob_boxplots(dir, y, m) ==
    sorted_names({f \in dir : starts_with(f, snow_prefix(y, m)) /\ ends_with(f, Png)})

\* lines 43-44
operations_file(y, m) == year_month(y, m) \o <<"_", "O", "p", "e", "r", "a", "t", "i", "n", "g", "S", "c", "h", "e", "d", "u", "l", "e", "_", "R", "e", "p", "o", "r", "t", ".", "p", "n", "g">>
precipitation_file(y, m) == year_month(y, m) \o <<"_", "P", "r", "e", "c", "i", "p", "S", "u", "m", "m", "a", "r", "y", "_", "R", "e", "p", "o", "r", "t", "_", "v", "0", "2", ".", "p", "n", "g">>

\* position of the n-th piece of a kind, 0 when there are fewer
match_index(content, kind, n) ==
    LET found == {i \in DOMAIN content : content[i].kind = kind}
    IN  IF Cardinality(found) < n THEN 0
        ELSE CHOOSE i \in found : Cardinality({j \in found : j <= i}) = n

\* content[:start] + replacement + content[end:]
splice(content, i, replacement) ==
    SubSeq(content, 1, i - 1) \o replacement \o SubSeq(content, i + 1, Len(content))

\* re.sub(pattern, replacement, content, count=1)
sub_first(content, kind, replacement) ==
    IF match_index(content, kind, 1) = 0 THEN content
    ELSE splice(content, match_index(content, kind, 1), replacement)

\* the operations plot written over the reference found
precip_match_first(content) == match_index(content, "ref85", 1)

\* lines 90-94: matches[1] of the 0.85-width references
precip_match(content) == match_index(content, "ref85", 2)

\* lines 74-79
update_operations(content, y, m) ==
    sub_first(content, "ref85",
              << [kind |-> "ref85", name |-> operations_file(y, m)] >>)

\* lines 81-87: the replacement text ends in two closing braces where the
\* pattern matched one
update_operations_caption(content, y, m) ==
    sub_first(content, "ops_caption",
              << [kind |-> "ops_caption", cap_month |-> m, cap_year |-> y],
                 [kind |-> "brace"] >>)

\* lines 89-97
update_precipitation(content, y, m) ==
    IF precip_match(content) = 0 THEN content
    ELSE splice(content, precip_match(content),
                << [kind |-> "ref85", name |-> precipitation_file(y, m)] >>)

\* lines 99-104
update_precipitation_caption(content) ==
    sub_first(content, "precip_caption",
              << [kind |-> "precip_caption", canonical |-> TRUE] >>)

\* line 134: a SnowDepth figure directly followed by the Radiometer
\* subsection; the repeated group of the pattern cannot cross the closing
\* brace of a file name, so the match is that one figure
section_match(content) ==
    LET found == {i \in 1..(Len(content) - 1) :
                     /\ content[i].kind = "snow_figure"
                     /\ content[i + 1].kind = "radiometer"}
    IN  IF found = {} THEN 0 ELSE Min(found)

\* lines 106-151
update_boxplots(content, dir, y, m) ==
    LET files == glob_boxplots(dir, y, m)
        figures == boxplot_figures(files, y, m)
    IN  IF files = <<>> THEN content
        ELSE IF section_match(content) # 0
        THEN splice(content, section_match(content), figures)
        ELSE IF match_index(content, "snow_figure", 1) # 0
        THEN splice(content, match_index(content, "snow_figure", 1), figures)
        ELSE content

\* lines 153-171
update_dated_text(content, y, m) ==
    LET c1 == sub_first(content, "dates",
                        << [kind |-> "dates", cap_month |-> m, cap_year |-> y] >>)
        c2 == sub_first(c1, "focus",
                        << [kind |-> "focus", cap_month |-> m, cap_year |-> y] >>)
    IN  sub_first(c2, "docname",
                  << [kind |-> "docname", cap_month |-> m, cap_year |-> y] >>)

\* lines 74-171, in the order of the code
updated_content(content, dir, y, m) ==
    LET c1 == update_operations(content, y, m)
        c2 == update_operations_caption(c1, y, m)
        c3 == update_precipitation(c2, y, m)
        c4 == update_precipitation_caption(c3)
        c5 == update_boxplots(c4, dir, y, m)
    IN  update_dated_text(c5, y, m)

\* one run: False without main.tex (lines 30-32), else the updated content
\* is written and True returned (lines 173-178).  The snow depth plot chosen
\* at lines 47-72 is only looked for, it is not written into the content
update_latex_plots ==
    /\ tex_runs < 2
    /\ tex_runs' = tex_runs + 1
    /\ IF ~tex_exists
       THEN /\ tex_ret' = "False"
            /\ UNCHANGED <<tex, tex_once>>
       ELSE /\ tex' = updated_content(tex, plots, tex_year, tex_month)
            /\ tex_once' = IF tex_runs = 0 THEN tex' ELSE tex_once
            /\ tex_ret' = "True"
    /\ UNCHANGED texIn
    /\ UNCHANGED <<earlyVars, pipeVars, tableVars, dedupVars, nmVars>>

\* the report of November 2025, and the plots of two station pairs
OldFigure ==
    boxplot_figures(<<boxplot_filename(<<"G", "o", "l", "d", " ", "B", "a", "s", "i", "n">>,
                                       <<"E", "l", "k", "e", " ", "R", "i", "d", "g", "e">>,
                                       2025, 11)>>, 2025, 11)[1]

TexPieces ==
    { [kind |-> "ref85", name |-> <<"f", "i", "g", ".", "p", "n", "g">>],
      [kind |-> "ops_caption", cap_month |-> 11, cap_year |-> 2025],
      [kind |-> "precip_caption", canonical |-> FALSE],
      OldFigure,
      [kind |-> "radiometer"],
      [kind |-> "text"],
      [kind |-> "dates", cap_month |-> 11, cap_year |-> 2025],
      [kind |-> "focus", cap_month |-> 11, cap_year |-> 2025],
      [kind |-> "docname", cap_month |-> 11, cap_year |-> 2025] }

PlotDirs ==
    LET old == boxplot_filename(<<"G", "o", "l", "d", " ", "B", "a", "s", "i", "n">>,
                                <<"E", "l", "k", "e", " ", "R", "i", "d", "g", "e">>, 2025, 11)
        one == boxplot_filename(<<"G", "o", "l", "d", " ", "B", "a", "s", "i", "n">>,
                                <<"E", "l", "k", "e", " ", "R", "i", "d", "g", "e">>, 2025, 12)
        two == boxplot_filename(<<"L", "a", " ", "S", "a", "l", " ", "M", "t", "n">>,
                                <<"C", "a", "m", "p", " ", "j", "a", "c", "k", "s", "o", "n">>, 2025, 12)
    IN  { {}, {old, one}, {old, one, two} }

InitLatex ==
    /\ tex_exists \in BOOLEAN
    /\ IF tex_exists
       THEN \E n \in 0..MaxTokens : tex_start \in [1..n -> TexPieces]
       ELSE tex_start = <<>>
    /\ tex = tex_start
    /\ plots \in PlotDirs
    /\ tex_month \in {11, 12}
    /\ tex_year = 2025
    /\ texStart
    /\ earlyIdle
    /\ pipeIdle
    /\ tableIdle
    /\ dedupIdle
    /\ nmIdle

NextLatex == update_latex_plots

SpecLatex == InitLatex /\ [][NextLatex]_vars

----------------------------------------------------------------------------
(* Vocabulary of the properties of the decumulator.  Positions are those   *)
(* of the returned (date-sorted) rows.                                     *)

Done == pc = "done"

N == Len(out_dates)
V(i) == out_dates[i].Value
D(i) == out_dates[i].Date

\* the water-year segment of a date, for a water year that starts on Oct 1
SegOf(d) == IF d[2] >= 10 THEN d[1] + 1 ELSE d[1]

\* position i has a predecessor in its own segment
HasPrev(i) == i > 1 /\ SegOf(D(i - 1)) = SegOf(D(i))

\* position i is dated on the earliest date of its segment
OnFirstDay(i) ==
    \A j \in 1..N : SegOf(D(j)) = SegOf(D(i)) => Ord(D(i)) <= Ord(D(j))

\* position i is the only reading of its segment
Alone(i) == \A j \in 1..N : SegOf(D(j)) = SegOf(D(i)) => j = i

\* the raw value, with the negative-to-missing rule applied
RawOrMissing(v) == IF (~isna(v)) /\ v < 0 THEN NaN ELSE v

\* no value is missing and the values rise strictly inside every segment
StrictlyIncreasing ==
    \A i \in 1..N : /\ ~isna(V(i))
                    /\ HasPrev(i) => V(i - 1) < V(i)

\* the delta from position i-1 to i is inside a segment and negative
NegDelta(i) ==
    HasPrev(i) /\ ~isna(V(i)) /\ ~isna(V(i - 1)) /\ V(i) < V(i - 1)

\* the multiset of the elements of a sequence, as a count per element
CountIn(s, x) == Cardinality({i \in DOMAIN s : s[i] = x})
SameRows(s, t) ==
    /\ Len(s) = Len(t)
    /\ \A i \in DOMAIN s : CountIn(s, s[i]) = CountIn(t, s[i])

Ascending(s) ==
    \A i \in DOMAIN s : \A j \in DOMAIN s :
        i < j => Ord(s[i].Date) <= Ord(s[j].Date)

----------------------------------------------------------------------------
\* C1 (as stated): for a series strictly increasing within each segment,
\* the first reading of each segment gets its raw value and every later
\* reading of the segment gets its value minus the preceding reading's value.
C1_AsStated ==
    (Done /\ StrictlyIncreasing) =>
        \A i \in 1..N :
            daily_diff[i] = IF HasPrev(i) THEN V(i) - V(i - 1) ELSE V(i)

\* C1 (amended): for a series strictly increasing within each segment, every
\* reading dated on the earliest date of its segment gets its raw value, or
\* the missing marker when that value is negative, and every reading dated
\* later gets its value minus the value of the immediately preceding reading
\* of the segment, whatever the gap between the two dates.
C1_ForwardDifferences ==
    (Done /\ StrictlyIncreasing) =>
        \A i \in 1..N :
            daily_diff[i] = IF OnFirstDay(i) THEN RawOrMissing(V(i))
                            ELSE V(i) - V(i - 1)

C1_Witness ==
    /\ Done
    /\ StrictlyIncreasing
    /\ out_dates = <<[Date |-> <<2025, 9, 30>>, Value |-> 3],
                     [Date |-> <<2025, 10, 1>>, Value |-> 3],
                     [Date |-> <<2026, 1, 5>>, Value |-> 5]>>
    /\ daily_diff = <<3, 3, 2>>

\* C2: every returned increment is the missing marker or a number >= 0, and
\* a position whose difference to the preceding reading of its segment is
\* negative is returned as missing; (2025-10-01, 5), (2025-10-02, 3) gives
\* 5, missing.
C2_NeverNegative ==
    Done =>
        /\ \A i \in 1..N : isna(daily_diff[i]) \/ daily_diff[i] >= 0
        /\ \A i \in 1..N : (NegDelta(i) /\ ~OnFirstDay(i)) => isna(daily_diff[i])
        /\ (out_dates = <<[Date |-> <<2025, 10, 1>>, Value |-> 5],
                          [Date |-> <<2025, 10, 2>>, Value |-> 3]>>)
              => daily_diff = <<5, NaN>>

C2_Witness ==
    /\ Done
    /\ out_dates = <<[Date |-> <<2025, 10, 1>>, Value |-> 5],
                     [Date |-> <<2025, 10, 2>>, Value |-> 3]>>
    /\ daily_diff = <<5, NaN>>

\* the series has a reading on Sept 30 and one on Oct 1 of the same year
HasSep30AndOct1 ==
    /\ \E i \in 1..N : D(i) = <<2025, 9, 30>>
    /\ \E i \in 1..N : D(i) = <<2025, 10, 1>>

\* C3 (as stated): Sept 30 and Oct 1 of one year are in different segments,
\* the Oct 1 reading's increment is its raw value, and the first reading of
\* the Sept 30 segment gets its raw value.
C3_AsStated ==
    (Done /\ HasSep30AndOct1) =>
        \A i \in 1..N : \A j \in 1..N :
            (D(i) = <<2025, 9, 30>> /\ D(j) = <<2025, 10, 1>>) =>
                /\ water_year[i] # water_year[j]
                /\ daily_diff[j] = V(j)
                /\ \A k \in 1..N :
                      (SegOf(D(k)) = SegOf(D(i)) /\ ~HasPrev(k))
                          => daily_diff[k] = V(k)

\* C3 (amended): Sept 30 and Oct 1 of one year are in different segments;
\* the Oct 1 reading's increment is its own raw value, or the missing marker
\* when that value is negative, never a difference from the Sept 30 reading;
\* and the first reading of the Sept 30 segment likewise gets its raw value
\* or the missing marker when it is negative.
C3_SegmentRestart ==
    (Done /\ HasSep30AndOct1) =>
        \A i \in 1..N : \A j \in 1..N :
            (D(i) = <<2025, 9, 30>> /\ D(j) = <<2025, 10, 1>>) =>
                /\ water_year[i] # water_year[j]
                /\ daily_diff[j] = RawOrMissing(V(j))
                /\ \A k \in 1..N :
                      (SegOf(D(k)) = SegOf(D(i)) /\ ~HasPrev(k))
                          => daily_diff[k] = RawOrMissing(V(k))

C3_Witness ==
    /\ Done
    /\ out_dates = <<[Date |-> <<2025, 9, 29>>, Value |-> 3],
                     [Date |-> <<2025, 9, 30>>, Value |-> 5],
                     [Date |-> <<2025, 10, 1>>, Value |-> 3]>>
    /\ water_year = <<2025, 2025, 2026>>
    /\ daily_diff = <<3, 2, 3>>

\* the in-segment forward difference at position i: the raw value for the
\* first reading of a segment, the difference to the preceding reading else
PlainDiff(i) == IF HasPrev(i) THEN Sub(V(i), V(i - 1)) ELSE V(i)

C5_WaterYear ==
    Done =>
        wy_ret = IF date[2] >= 10 THEN date[1] + 1 ELSE date[1]

C5_Witness ==
    /\ Done
    /\ date = <<2025, 10, 1>>
    /\ wy_ret = 2026

\* C6: along the date-sorted rows the water year never decreases, so every
\* water-year group is one contiguous run, the runs are ordered by date and
\* every reading is in exactly one of them.
C6_ContiguousSegments ==
    Done =>
        /\ Len(water_year) = N
        /\ \A i \in 1..N : \A j \in 1..N :
              Ord(D(i)) <= Ord(D(j)) => water_year[i] <= water_year[j]
        /\ \A i \in 1..N : \A j \in 1..N :
              i < j => /\ Ord(D(i)) <= Ord(D(j))
                       /\ water_year[i] <= water_year[j]
        /\ \A i \in 1..N : \A j \in 1..N : \A k \in 1..N :
              (i < k /\ k < j /\ water_year[i] = water_year[j])
                  => water_year[k] = water_year[i]

C6_Witness ==
    /\ Done
    /\ N = 3
    /\ water_year = <<2025, 2026, 2026>>
    /\ df[1].Date = <<2026, 1, 5>>
    /\ df[3].Date = <<2025, 9, 30>>

\* C7 (as stated): a reading that is not the first of its segment gets a
\* non-missing increment only if its value and the preceding reading's value
\* are both non-missing; a missing value gives a missing increment at its
\* own position and at the next position of the segment; the other
\* increments are computed normally.
C7_AsStated ==
    Done =>
        /\ \A i \in 1..N :
              (HasPrev(i) /\ ~isna(daily_diff[i]))
                  => (~isna(V(i)) /\ ~isna(V(i - 1)))
        /\ \A i \in 1..N :
              isna(V(i)) =>
                  /\ isna(daily_diff[i])
                  /\ (i < N /\ HasPrev(i + 1)) => isna(daily_diff[i + 1])
        /\ \A i \in 1..N :
              (HasPrev(i) /\ ~isna(V(i)) /\ ~isna(V(i - 1)))
                  => daily_diff[i] = RawOrMissing(V(i) - V(i - 1))

\* C7 (amended): a reading dated after the earliest date of its segment gets
\* a non-missing increment only if its value and the value of the
\* immediately preceding reading of the segment are both non-missing; a
\* missing value gives a missing increment at its own position and at the
\* next position of the segment when that one is dated after the segment's
\* earliest date; with both values present the increment of such a reading
\* is the difference, or missing when the difference is negative.
C7_MissingPropagates ==
    Done =>
        /\ \A i \in 1..N :
              ((~OnFirstDay(i)) /\ ~isna(daily_diff[i]))
                  => (~isna(V(i)) /\ ~isna(V(i - 1)))
        /\ \A i \in 1..N :
              isna(V(i)) =>
                  /\ isna(daily_diff[i])
                  /\ (i < N /\ HasPrev(i + 1) /\ ~OnFirstDay(i + 1))
                        => isna(daily_diff[i + 1])
        /\ \A i \in 1..N :
              ((~OnFirstDay(i)) /\ ~isna(V(i)) /\ ~isna(V(i - 1)))
                  => daily_diff[i] = RawOrMissing(V(i) - V(i - 1))

C7_Witness ==
    /\ Done
    /\ out_dates = <<[Date |-> <<2025, 10, 1>>, Value |-> 3],
                     [Date |-> <<2025, 10, 2>>, Value |-> NaN],
                     [Date |-> <<2026, 1, 5>>, Value |-> 5]>>
    /\ daily_diff = <<3, NaN, NaN>>

\* C8 (as stated): one increment per input reading, and the returned dates
\* are in the order in which they appear in the input, sorted or not.
C8_AsStated ==
    Done =>
        /\ Len(daily_diff) = Len(df)
        /\ Len(out_dates) = Len(df)
        /\ \A i \in 1..N : D(i) = df[i].Date

\* C8 (amended): one increment per input reading, the returned rows being
\* the input rows in ascending date order; the returned dates are in the
\* order of the input when the input is already sorted by date.
C8_OnePerReading ==
    Done =>
        /\ Len(daily_diff) = Len(df)
        /\ SameRows(out_dates, df)
        /\ Ascending(out_dates)
        /\ Ascending(df) => \A i \in 1..N : D(i) = df[i].Date

C8_Witness ==
    /\ Done
    /\ df = <<[Date |-> <<2025, 10, 2>>, Value |-> 5],
              [Date |-> <<2025, 10, 1>>, Value |-> 3]>>
    /\ out_dates = <<df[2], df[1]>>
    /\ daily_diff = <<3, 2>>

\* C9 (as stated): an empty series gives an empty series, and the only
\* reading of a segment gets its raw value.
C9_AsStated ==
    Done =>
        /\ df = <<>> => (out_dates = <<>> /\ daily_diff = <<>>)
        /\ \A i \in 1..N : Alone(i) => daily_diff[i] = V(i)

\* C9 (amended): an empty series gives an empty series, and the only
\* reading of a segment gets its raw value, or the missing marker when that
\* value is negative.
C9_EmptyAndSingle ==
    Done =>
        /\ df = <<>> => (out_dates = <<>> /\ daily_diff = <<>>)
        /\ \A i \in 1..N : Alone(i) => daily_diff[i] = RawOrMissing(V(i))

C9_Witness ==
    /\ Done
    /\ N = 2
    /\ Alone(1) /\ Alone(2)
    /\ V(1) = 3 /\ V(2) = 0 - 2
    /\ daily_diff = <<3, NaN>>

----------------------------------------------------------------------------
(* Vocabulary of the properties of the paired aggregation *)

\* the dates of the target month on which a table has a non-missing value
ValuedDates(frame) ==
    {frame[i].Date : i \in {i \in DOMAIN frame :
                              frame[i].Date[2] = month /\ ~isna(frame[i].Value)}}

\* the non-missing values a table has on a date
ValuesOn(frame, d) ==
    {frame[i].Value : i \in {i \in DOMAIN frame :
                               frame[i].Date = d /\ ~isna(frame[i].Value)}}

AlignedDates == ValuedDates(treatment_df) \cap ValuedDates(control_df)

UniqueDates(frame) == is_unique(index_of(frame))

\* the difference distribution has one element per aligned date, each a
\* treatment value minus a control value of that date
OnePerAlignedDate ==
    /\ Len(diff_groups) = 1
    /\ Len(diff_groups[1]) = Len(merged)
    /\ \A d \in AlignedDates :
          Cardinality({k \in DOMAIN merged : merged[k].Date = d}) = 1
    /\ \A k \in DOMAIN merged :
          /\ merged[k].Date \in AlignedDates
          /\ \E t \in ValuesOn(treatment_df, merged[k].Date) :
                \E c \in ValuesOn(control_df, merged[k].Date) :
                    diff_groups[1][k] = t - c

ExampleTreatment == <<[Date |-> <<2025, 1, 5>>, Value |-> 10],
                      [Date |-> <<2025, 1, 6>>, Value |-> 12]>>
ExampleControl == <<[Date |-> <<2025, 1, 5>>, Value |-> 8],
                    [Date |-> <<2025, 1, 6>>, Value |-> 8]>>

ExampleGivesTwoFour ==
    (treatment_df = ExampleTreatment /\ control_df = ExampleControl /\ month = 1)
        => (result = "file" /\ diff_groups = <<(<<2, 4>>)>>)

\* C10 (as stated): the difference distribution has exactly one element per
\* date of the target month that has a non-missing value in both series, the
\* element being treatment minus control on that date; the example series
\* give 2, 4.
C10_AsStated ==
    Done =>
        /\ result = "file" => OnePerAlignedDate
        /\ ExampleGivesTwoFour

\* C10 (amended): for station series with unique dates, the difference
\* distribution has exactly one element per date of the target month that
\* has a non-missing value in both series, the element being treatment minus
\* control on that date; the example series give 2, 4.
C10_DifferencePerAlignedDate ==
    Done =>
        /\ (result = "file" /\ UniqueDates(treatment_df) /\ UniqueDates(control_df))
              => OnePerAlignedDate
        /\ ExampleGivesTwoFour

C10_Witness ==
    /\ Done
    /\ treatment_df = ExampleTreatment
    /\ control_df = ExampleControl
    /\ month = 1
    /\ result = "file"
    /\ diff_groups = <<(<<2, 4>>)>>

----------------------------------------------------------------------------
\* the rows of the aligned frame that fall in the highlighted year
YearRows == SelectSeq2(merged, {k \in DOMAIN merged : merged[k].Date[1] = year})

\* equality of two exact means <<sum, count>>
SameMean(a, b) == a[2] > 0 /\ b[2] > 0 /\ a[1] * b[2] = b[1] * a[2]

MeanOf(rows, name) == <<SumSeq(column(rows, name)), Len(rows)>>

\* C11: with a target year, the highlight triple is the mean treatment
\* value, mean control value and mean difference over the aligned dates of
\* the target month that fall in the target year; aligned dates of the same
\* month in other years do not contribute.
C11_HighlightOfTargetYear ==
    (Done /\ result = "file" /\ YearRows # <<>>) =>
        /\ Len(highlight_vals) = 1
        /\ SameMean(highlight_vals[1].t, MeanOf(YearRows, "Treatment"))
        /\ SameMean(highlight_vals[1].c, MeanOf(YearRows, "Control"))
        /\ SameMean(highlight_vals[1].d, MeanOf(YearRows, "Diff"))

\* C12: when the target month has aligned dates in other years but none in
\* the target year, the three distributions are still produced and no
\* highlight is.
C12_NoHighlightWithoutTargetYear ==
    (Done /\ UniqueDates(treatment_df) /\ UniqueDates(control_df)
          /\ AlignedDates # {} /\ \A d \in AlignedDates : d[1] # year) =>
        /\ result = "file"
        /\ Len(treatment_groups) = 1 /\ Len(control_groups) = 1
        /\ Len(diff_groups) = 1
        /\ highlight_vals = <<>>

\* no plot is produced and nothing is handed to the rendering step
NoData ==
    /\ result = "None"
    /\ treatment_groups = <<>> /\ control_groups = <<>> /\ diff_groups = <<>>
    /\ highlight_vals = <<>>

\* a produced summary has three non-empty distributions
NoEmptyDistribution ==
    result = "file" =>
        /\ Len(treatment_groups) = 1 /\ Len(treatment_groups[1]) > 0
        /\ Len(control_groups) = 1 /\ Len(control_groups[1]) > 0
        /\ Len(diff_groups) = 1 /\ Len(diff_groups[1]) > 0

NothingToPair ==
    \/ ValuedDates(treatment_df) = {}
    \/ ValuedDates(control_df) = {}
    \/ AlignedDates = {}

\* C13 (as stated): no-data (None, no plot) whenever the treatment series or
\* the control series has no non-missing value in the target month or no
\* date of the month has a value in both; never a summary with an empty
\* distribution.
C13_AsStated ==
    Done =>
        /\ NothingToPair => NoData
        /\ NoEmptyDistribution

\* C13 (amended): for station series with unique dates,
\* plot_snow_depth_boxplots signals no-data (returns None and writes no plot
\* file) whenever the treatment series or the control series has no
\* non-missing value in the target month or no date of the month has a
\* non-missing value in both; it never returns a summary with an empty
\* distribution.
C13_NoDataSignal ==
    Done =>
        /\ (UniqueDates(treatment_df) /\ UniqueDates(control_df) /\ NothingToPair)
              => NoData
        /\ NoEmptyDistribution

C13_Witness ==
    /\ Done
    /\ treatment_df = <<[Date |-> <<2025, 1, 5>>, Value |-> 10]>>
    /\ control_df = <<[Date |-> <<2025, 1, 6>>, Value |-> 8]>>
    /\ month = 1
    /\ NoData

\* the number of rows of a table that are in the target month and hold v
RowsWith(frame, v) ==
    Cardinality({i \in DOMAIN frame : frame[i].Date[2] = month /\ frame[i].Value = v})

\* a distribution holds exactly the non-missing target-month values of a table
PoolsAllYears(groups, frame, vals) ==
    /\ Len(groups) = 1
    /\ \A i \in DOMAIN groups[1] : ~isna(groups[1][i])
    /\ \A v \in vals \ {NaN} : CountIn(groups[1], v) = RowsWith(frame, v)

\* C14: the treatment and control distributions pool the target calendar
\* month over every year of the record: a non-missing reading is included if
\* and only if its month is the target month, whatever its year and whatever
\* the target year.
C14_PoolsEveryYear ==
    (Done /\ result = "file") =>
        /\ PoolsAllYears(treatment_groups, treatment_df, TreatmentValues)
        /\ PoolsAllYears(control_groups, control_df, ControlValues)

C14_Witness ==
    /\ Done
    /\ treatment_df = <<[Date |-> <<2024, 1, 5>>, Value |-> 10],
                        [Date |-> <<2025, 1, 5>>, Value |-> 12]>>
    /\ control_df = <<[Date |-> <<2024, 1, 5>>, Value |-> 8],
                      [Date |-> <<2025, 2, 5>>, Value |-> 8]>>
    /\ month = 1 /\ year = 2025
    /\ treatment_groups = <<(<<10, 12>>)>>
    /\ control_groups = <<(<<8>>)>>

\* the rows of a table that are in the target month and not missing
ValuedRows(frame) ==
    {i \in DOMAIN frame : frame[i].Date[2] = month /\ ~isna(frame[i].Value)}

\* C15: missing values are dropped from each series on its own: the
\* treatment distribution has every non-missing target-month treatment
\* value, also on dates where the control value is absent or missing, and
\* symmetrically; only the difference distribution is restricted to dates
\* present in both.
C15_DroppedPerSeries ==
    (Done /\ result = "file") =>
        /\ Len(treatment_groups[1]) = Cardinality(ValuedRows(treatment_df))
        /\ Len(control_groups[1]) = Cardinality(ValuedRows(control_df))
        /\ \A k \in DOMAIN merged :
              /\ merged[k].Date \in AlignedDates
              /\ ~isna(merged[k].Treatment) /\ ~isna(merged[k].Control)
        /\ Len(diff_groups[1]) = Len(merged)

C15_Witness ==
    /\ Done
    /\ treatment_df = <<[Date |-> <<2025, 1, 5>>, Value |-> 10],
                        [Date |-> <<2025, 1, 6>>, Value |-> 12]>>
    /\ control_df = <<[Date |-> <<2025, 1, 5>>, Value |-> 8],
                      [Date |-> <<2025, 1, 6>>, Value |-> NaN]>>
    /\ month = 1
    /\ treatment_groups = <<(<<10, 12>>)>>
    /\ control_groups = <<(<<8>>)>>
    /\ diff_groups = <<(<<2>>)>>

----------------------------------------------------------------------------
(* Properties of generate_all_plots *)

\* C17: once the boxplot step has started, every (treatment, control) pair
\* of the cartesian product is attempted exactly once, whatever the outcome
\* of the other pairs, and the run reaches its completion report.
C17_EveryPairAttempted ==
    (rpc = "boxplots") ~>
        (rpc = "complete" /\ \A i \in 1..NumPairs : attempts[i] = 1)

C17_Witness ==
    /\ rpc = "complete"
    /\ plot_count = 1
    /\ processed = 1..NumPairs
    /\ \A i \in 1..NumPairs : attempts[i] = 1

FailingStations == {s \in 1..NumStations : station_kind[s] # "ok"}

\* C18: a station without date column or without CSV is reported by
\* load_station_data as a per-station failure (None); the precipitation step
\* still loads every other station, and every boxplot pair that does not
\* involve a failing station is still processed.
C18_FailureConfined ==
    (rpc = "complete" /\ FailingStations # {}) =>
        /\ \A s \in FailingStations :
              load_station_data(station_kind[s]) = "None" /\ s \notin loaded
        /\ (~precip_error) => loaded = (1..NumStations) \ FailingStations
        /\ \A i \in 1..NumPairs :
              /\ attempts[i] = 1
              /\ ({treatment_of(i), control_of(i)} \cap FailingStations = {})
                    => i \in processed

C18_Witness ==
    /\ rpc = "complete"
    /\ station_kind[1] = "no_date_col"
    /\ station_kind[NumStations] = "no_csv"
    /\ loaded = 2..(NumStations - 1)
    /\ processed # {}

----------------------------------------------------------------------------
(* Properties of the configuration *)

\* C19: for a configured start (month m, day d) a date in month m before
\* day d belongs to the previous water year, a date on or after day d of
\* month m (and every date of a later month) to the next one.
C19_BoundaryByMonthAndDay ==
    Done =>
        wy_ret = IF \/ date[2] > cfg_month
                    \/ (date[2] = cfg_month /\ date[3] >= cfg_day)
                 THEN date[1] + 1
                 ELSE date[1]

----------------------------------------------------------------------------
(* Properties of the precipitation values *)

\* the station names and the column names of the model that hold 'snotel'
\* and 'accum' in some spelling
SnotelStations == {<<"S", "N", "O", "T", "E", "L", " ", "A">>,
                   <<"S", "n", "o", "t", "e", "l">>}
AccumColumns == {<<"P", "R", "C", "P", " ", "A", "C", "C", "U", "M">>,
                 <<"p", "r", "c", "p", " ", "a", "c", "c", "u", "m">>}

SensorCumulative ==
    station_name \in SnotelStations \/ precip_col \in AccumColumns

OwnReadings ==
    /\ Len(precip_values) = Len(station_df)
    /\ Len(precip_dates) = Len(station_df)
    /\ \A i \in DOMAIN station_df :
          /\ precip_dates[i] = station_df[i].Date
          /\ precip_values[i] = IF station_df[i].Value = NonNumeric THEN NaN
                                ELSE station_df[i].Value

Decumulated ==
    \E srt \in sort_values(station_df) :
        /\ precip_dates = [i \in DOMAIN srt |-> srt[i].Date]
        /\ precip_values = daily_diff_col(srt, water_year_col(srt))

\* C20: the decumulator is applied to a station's precipitation series if
\* and only if the station name contains 'snotel' or the precipitation
\* column name contains 'accum', in any letter case; for every other station
\* the values stored for the rendering step are the station's own readings,
\* one per reading, with non-numeric entries missing.
C20_DecumulatedIffCumulative ==
    /\ precip_result \in {"stored", "raise"} =>
          /\ cumulative <=> SensorCumulative
          /\ precip_result = "raise" => cumulative
    /\ precip_result = "stored" =>
          IF SensorCumulative THEN Decumulated ELSE OwnReadings

C20_Witness ==
    /\ precip_result = "stored"
    /\ station_name = <<"S", "N", "O", "T", "E", "L", " ", "A">>
    /\ precip_col = <<"P", "r", "e", "c", "i", "p">>
    /\ Decumulated
    /\ ~OwnReadings

----------------------------------------------------------------------------
(* Properties of run_complete_pipeline *)

PipelineOrder == <<"convert_all_pdfs", "generate_all_plots", "update_latex_plots">>

Started(step) == \E i \in DOMAIN calls : calls[i] = step

\* C21: the steps start in the order convert, generate, update;
\* update_latex_plots is started only after generate_all_plots returned
\* without raising; a raise of generate_all_plots makes the pipeline return
\* False with main.tex untouched; a raise of convert_all_pdfs does not keep
\* steps 2 and 3 from running.
C21_StepOrder ==
    /\ calls = SubSeq(PipelineOrder, 1, Len(calls))
    /\ Started("update_latex_plots") => generate_outcome = "returned"
    /\ generate_outcome = "raise" =>
          /\ pipe_ret = "False"
          /\ main_tex # "updated"
          /\ ~Started("update_latex_plots")
    /\ (pipe_pc = "returned" /\ convert_outcome = "raise") =>
          /\ Started("generate_all_plots")
          /\ generate_outcome = "returned" => Started("update_latex_plots")

C21_Witness ==
    /\ pipe_pc = "returned"
    /\ convert_outcome = "raise"
    /\ calls = PipelineOrder
    /\ main_tex = "updated"

\* C25: a station CSV that is present when the pipeline starts is neither
\* regenerated nor overwritten by convert_all_pdfs.
C25_ExistingCsvKept == csv_written \cap csv_before = {}

\* C27: run_complete_pipeline returns True only if update_latex_plots
\* returned True; when update_latex_plots returns False (main.tex not found)
\* the pipeline returns False.
C27_TrueOnlyAfterUpdate ==
    /\ pipe_ret = "True" => update_ret = "True"
    /\ (pipe_pc = "returned" /\ update_ret = "False") => pipe_ret = "False"

----------------------------------------------------------------------------
(* Properties of the operations table *)

\* C22: schedule rows share a 'start to end' table row only if they are
\* consecutive calendar days with identical Operating, On_Time and Off_Time:
\* every day of a printed range has a schedule entry with the status of the
\* range, so rows separated by a day without entry are never merged.
C22_RangesAreConsecutiveDays ==
    table_pc = "done" =>
        \A t \in DOMAIN table_rows :
            table_rows[t].date.kind = "range" =>
                \A dd \in table_rows[t].date.first..table_rows[t].date.last :
                    \E i \in DOMAIN schedule :
                        /\ schedule[i].Day = dd
                        /\ status_text(schedule[i]) = table_rows[t].status

----------------------------------------------------------------------------
(* Properties of remove_duplicates.py *)

\* the files of the figures of a document, in order
RECURSIVE FilesOf(_)
FilesOf(lines) ==
    IF lines = <<>> THEN <<>>
    ELSE IF Head(lines).kind = "include"
         THEN <<Head(lines).file>> \o FilesOf(Tail(lines))
         ELSE FilesOf(Tail(lines))

\* a sequence without the later occurrences of its elements
RECURSIVE FirstOccurrences(_)
FirstOccurrences(files) ==
    IF files = <<>> THEN <<>>
    ELSE LET init == SubSeq(files, 1, Len(files) - 1)
             last == files[Len(files)]
         IN  IF \E i \in DOMAIN init : init[i] = last
             THEN FirstOccurrences(init)
             ELSE Append(FirstOccurrences(init), last)

\* C23: after remove_duplicates.py has run, no SnowDepth png file name is
\* referenced by more than one figure of the boxplot section, and for every
\* file name referenced before the run the figure kept is its first
\* occurrence, the kept figures being in their original relative order.
C23_FirstOccurrencesKept ==
    dedup_pc = "written" =>
        /\ \A i, j \in DOMAIN FilesOf(new_lines) :
              FilesOf(new_lines)[i] = FilesOf(new_lines)[j] => i = j
        /\ FilesOf(new_lines) = FirstOccurrences(FilesOf(tex_lines))

----------------------------------------------------------------------------
(* Properties of the boxplot file name *)

\* C29: the pair of station names that update_latex_plots recovers from the
\* file name generated by plot_snow_depth_boxplots equals the original pair,
\* and exactly one figure is emitted for the generated file.
C29_NamesRoundTrip ==
    nm_pc = "done" =>
        /\ Len(nm_figures) = 1
        /\ nm_figures[1].treatment = nm_treatment
        /\ nm_figures[1].control = nm_control

----------------------------------------------------------------------------
(* Properties of update_latex_plots *)

\* the file names of the 0.85-width references of a content, in order
RECURSIVE Refs(_)
Refs(content) ==
    IF content = <<>> THEN <<>>
    ELSE IF Head(content).kind = "ref85"
         THEN <<Head(content).name>> \o Refs(Tail(content))
         ELSE Refs(Tail(content))

ExpectedOperationsFile ==
    year_month(tex_year, tex_month) \o <<"_", "O", "p", "e", "r", "a", "t", "i", "n", "g", "S", "c", "h", "e", "d", "u", "l", "e", "_", "R", "e", "p", "o", "r", "t", ".", "p", "n", "g">>

ExpectedPrecipitationFile ==
    year_month(tex_year, tex_month) \o <<"_", "P", "r", "e", "c", "i", "p", "S", "u", "m", "m", "a", "r", "y", "_", "R", "e", "p", "o", "r", "t", "_", "v", "0", "2", ".", "p", "n", "g">>

\* C24: after update_latex_plots on a main.tex with at least two 0.85-width
\* references, the first names <year><month>_OperatingSchedule_Report.png,
\* the second <year><month>_PrecipSummary_Report_v02.png, and no other
\* 0.85-width reference is changed.
C24_FirstTwoReferences ==
    (tex_runs = 1 /\ tex_exists /\ Len(Refs(tex_start)) >= 2) =>
        /\ Len(Refs(tex)) = Len(Refs(tex_start))
        /\ Refs(tex)[1] = ExpectedOperationsFile
        /\ Refs(tex)[2] = ExpectedPrecipitationFile
        /\ \A i \in 3..Len(Refs(tex)) : Refs(tex)[i] = Refs(tex_start)[i]

C24_Witness ==
    /\ tex_runs = 1
    /\ tex_ret = "True"
    /\ Len(Refs(tex_start)) = 3
    /\ Refs(tex)[1] = ExpectedOperationsFile
    /\ Refs(tex)[3] = Refs(tex_start)[3]
    /\ tex # tex_start

\* C28: applying update_latex_plots twice, with the same month, year and
\* plot files, leaves the content that applying it once leaves.
C28_Idempotent == tex_runs = 2 => tex = tex_once

----------------------------------------------------------------------------
(* Sizes of the distributions of the paired aggregation *)

\* C26: for station series with unique dates, whenever
\* plot_snow_depth_boxplots produces a summary, the treatment, control and
\* difference distributions are non-empty and the difference distribution
\* has no more elements than the treatment distribution and no more than
\* the control distribution.
C26_DifferenceNoLarger ==
    (Done /\ result = "file" /\ UniqueDates(treatment_df) /\ UniqueDates(control_df)) =>
        /\ Len(treatment_groups) = 1
        /\ Len(control_groups) = 1
        /\ Len(diff_groups) = 1
        /\ 0 < Len(diff_groups[1])
        /\ Len(diff_groups[1]) <= Len(treatment_groups[1])
        /\ Len(diff_groups[1]) <= Len(control_groups[1])

C26_Witness ==
    /\ Done
    /\ result = "file"
    /\ UniqueDates(treatment_df)
    /\ UniqueDates(control_df)
    /\ Len(diff_groups[1]) = 1
    /\ Len(treatment_groups[1]) = 2
    /\ Len(control_groups[1]) = 1

====
